---- MODULE Spec2Model ----
(***************************************************************************)
(* A model of UnityPdbDownloader (src/src/main.rs).                        *)
(*                                                                         *)
(* Text is modelled as a sequence of bytes (0..255): a Rust &str is its    *)
(* UTF-8 encoding, a path is the bytes of the path.  Paths follow the      *)
(* rules of std::path on a Unix build: the only separator is '/' (47).     *)
(* A file system is a function from the paths that exist to file contents  *)
(* (a sequence of bytes).                                                  *)
(***************************************************************************)
EXTENDS Integers, Sequences, FiniteSets, TLC

(***************************************************************************)
(* Sequence helpers.                                                       *)
(***************************************************************************)
Prefix(s, n) == SubSeq(s, 1, n)

Suffix(s, n) == SubSeq(s, Len(s) - n + 1, Len(s))

EndsWith(s, t) == Len(s) >= Len(t) /\ Suffix(s, Len(t)) = t

RECURSIVE Concat(_)
Concat(ss) == IF ss = <<>> THEN <<>> ELSE Head(ss) \o Concat(Tail(ss))

None == [some |-> FALSE, val |-> <<>>]

Some(v) == [some |-> TRUE, val |-> v]

(***************************************************************************)
(* std::str::from_utf8 (line 31): whether the bytes are well-formed UTF-8. *)
(* Utf8CharLen is the length of the well-formed character that starts at   *)
(* position i, or 0 when there is none.                                    *)
(***************************************************************************)
IsCont(b) == b >= 128 /\ b <= 191

Utf8CharLen(s, i) ==
  LET n  == Len(s)
      b0 == s[i]
      b1 == IF i + 1 <= n THEN s[i + 1] ELSE 0
      b2 == IF i + 2 <= n THEN s[i + 2] ELSE 0
      b3 == IF i + 3 <= n THEN s[i + 3] ELSE 0
  IN  IF b0 < 128 THEN 1
      ELSE IF b0 >= 194 /\ b0 <= 223
        THEN IF IsCont(b1) THEN 2 ELSE 0
      ELSE IF b0 = 224
        THEN IF b1 >= 160 /\ b1 <= 191 /\ IsCont(b2) THEN 3 ELSE 0
      ELSE IF (b0 >= 225 /\ b0 <= 236) \/ b0 = 238 \/ b0 = 239
        THEN IF IsCont(b1) /\ IsCont(b2) THEN 3 ELSE 0
      ELSE IF b0 = 237
        THEN IF b1 >= 128 /\ b1 <= 159 /\ IsCont(b2) THEN 3 ELSE 0
      ELSE IF b0 = 240
        THEN IF b1 >= 144 /\ b1 <= 191 /\ IsCont(b2) /\ IsCont(b3) THEN 4 ELSE 0
      ELSE IF b0 >= 241 /\ b0 <= 243
        THEN IF IsCont(b1) /\ IsCont(b2) /\ IsCont(b3) THEN 4 ELSE 0
      ELSE IF b0 = 244
        THEN IF b1 >= 128 /\ b1 <= 143 /\ IsCont(b2) /\ IsCont(b3) THEN 4 ELSE 0
      ELSE 0

RECURSIVE Utf8ValidFrom(_, _)
Utf8ValidFrom(s, i) ==
  IF i > Len(s) THEN TRUE
  ELSE LET k == Utf8CharLen(s, i)
       IN  k > 0 /\ Utf8ValidFrom(s, i + k)

from_utf8_ok(bytes) == Utf8ValidFrom(bytes, 1)

(***************************************************************************)
(* str::trim_end_matches('\0') (line 33): every trailing NUL is removed.   *)
(***************************************************************************)
RECURSIVE trim_end_matches_nul(_)
trim_end_matches_nul(s) ==
  IF s # <<>> /\ s[Len(s)] = 0
    THEN trim_end_matches_nul(Prefix(s, Len(s) - 1))
    ELSE s

(***************************************************************************)
(* str::trim_end (line 34): every trailing character with the Unicode      *)
(* White_Space property is removed.  WhiteSpaceChars is their UTF-8.       *)
(***************************************************************************)
WhiteSpaceChars ==
  { <<b>> : b \in 9..13 } \cup { <<32>>, <<194, 133>>, <<194, 160>>, <<225, 154, 128>> }
  \cup { <<226, 128, b>> : b \in 128..138 }
  \cup { <<226, 128, 168>>, <<226, 128, 169>>, <<226, 128, 175>>,
         <<226, 129, 159>>, <<227, 128, 128>> }

RECURSIVE trim_end(_)
trim_end(s) ==
  IF \E w \in WhiteSpaceChars : EndsWith(s, w)
    THEN LET w == CHOOSE x \in WhiteSpaceChars : EndsWith(s, x)
         IN  trim_end(Prefix(s, Len(s) - Len(w)))
    ELSE s

(***************************************************************************)
(* Lines 31-34: the debug record's file name as text.  Bytes that are not  *)
(* UTF-8 decode to the empty string (unwrap_or("")).                       *)
(***************************************************************************)
pdb_path_raw(filename) ==
  trim_end(trim_end_matches_nul(IF from_utf8_ok(filename) THEN filename ELSE <<>>))

(***************************************************************************)
(* std::path (Unix): Components read from the back, as Path::file_name,    *)
(* Path::file_stem and Path::parent use them.                              *)
(***************************************************************************)
is_sep(b) == b = 47

has_root(p) == p # <<>> /\ is_sep(p[1])

include_cur_dir(p) ==
  /\ ~has_root(p)
  /\ p # <<>>
  /\ p[1] = 46
  /\ (Len(p) = 1 \/ is_sep(p[2]))

len_before_body(p) ==
  (IF has_root(p) THEN 1 ELSE 0) + (IF include_cur_dir(p) THEN 1 ELSE 0)

\* parse_single_component: "" and "." are no component.
component_kind(comp) ==
  IF comp = <<46>> \/ comp = <<>> THEN "None"
  ELSE IF comp = <<46, 46>> THEN "ParentDir"
  ELSE "Normal"

Max(S) == CHOOSE i \in S : \A j \in S : j <= i

\* The separators of the body (the path after its root or leading ".").
body_separators(p, start) == { i \in (start + 1)..Len(p) : is_sep(p[i]) }

last_component(comp, extra) ==
  [kind |-> component_kind(comp), comp |-> comp, size |-> Len(comp) + extra]

component_after(p, start, seps) ==
  IF seps = {}
    THEN last_component(SubSeq(p, start + 1, Len(p)), 0)
    ELSE last_component(SubSeq(p, Max(seps) + 1, Len(p)), 1)

component_from(p, start) == component_after(p, start, body_separators(p, start))

\* The last component's text and the bytes it takes (its separator included).
parse_next_component_back(p) == component_from(p, len_before_body(p))

\* Components::next_back: the last component and the path left before it.
\* body: the component was read from the body (not the root or leading ".").
RECURSIVE next_back(_)
next_back_in_body(p, c) ==
  IF c.kind # "None"
    THEN [kind |-> c.kind, comp |-> c.comp, rest |-> Prefix(p, Len(p) - c.size),
          body |-> TRUE]
    ELSE next_back(Prefix(p, Len(p) - c.size))

next_back(p) ==
  IF Len(p) > len_before_body(p)
    THEN next_back_in_body(p, parse_next_component_back(p))
  ELSE IF has_root(p)
    THEN [kind |-> "RootDir", comp |-> <<47>>, rest |-> Prefix(p, Len(p) - 1), body |-> FALSE]
  ELSE IF include_cur_dir(p)
    THEN [kind |-> "CurDir", comp |-> <<46>>, rest |-> Prefix(p, Len(p) - 1), body |-> FALSE]
  ELSE [kind |-> "None", comp |-> <<>>, rest |-> p, body |-> FALSE]

\* Components::trim_right, which Components::as_path applies in the body.
RECURSIVE trim_right(_)
trim_right_step(p, c) ==
  IF c.kind # "None" THEN p ELSE trim_right(Prefix(p, Len(p) - c.size))

trim_right(p) ==
  IF Len(p) > len_before_body(p)
    THEN trim_right_step(p, parse_next_component_back(p))
    ELSE p

\* Path::file_name: the last component, when it is a normal one.
normal_component(c) == IF c.kind = "Normal" THEN Some(c.comp) ELSE None

file_name(p) == normal_component(next_back(p))

\* rsplit_file_at_dot: the name up to its last '.', or the whole name when it has
\* no '.' or only a leading one.
dot_positions(name) == { i \in 1..Len(name) : name[i] = 46 }

before_dot(name, dots) ==
  IF name = <<46, 46>> \/ dots = {} THEN name
  ELSE IF Max(dots) = 1 THEN name
  ELSE Prefix(name, Max(dots) - 1)

stem_of(f) == IF f.some THEN Some(before_dot(f.val, dot_positions(f.val))) ELSE None

\* Path::file_stem
file_stem(p) == stem_of(file_name(p))

\* Path::parent: the path before the last component, unless that is the root.
path_before(c) ==
  IF c.kind \in {"Normal", "CurDir", "ParentDir"}
    THEN Some(IF c.body THEN trim_right(c.rest) ELSE c.rest)
    ELSE None

parent(p) == path_before(next_back(p))


\* A slip for C8: the name appended without a separator.
join_without_separator(base, path) == base \o path

\* Path::join, that is PathBuf::push: an absolute path replaces the base.
join(base, path) ==
  IF has_root(path) THEN path
  ELSE IF base # <<>> /\ ~is_sep(base[Len(base)]) THEN base \o <<47>> \o path
  ELSE base \o path

(***************************************************************************)
(* Numbers of lines 47-53.  A u32 does not fit TLC's 32-bit integers, so   *)
(* an unsigned number is held as its base-256 digits, most significant     *)
(* first: <<d1, ..., dn>> is d1 * 256^(n-1) + ... + dn.                     *)
(***************************************************************************)
RECURSIVE Reverse(_)
Reverse(s) == IF s = <<>> THEN <<>> ELSE Reverse(Tail(s)) \o <<Head(s)>>


\* A slip for C6: the bytes taken most significant first (from_be_bytes).
from_be_bytes(bs) == bs

\* u32::from_le_bytes and u16::from_le_bytes (lines 49-51): the first byte is the
\* least significant.
from_le_bytes(bs) == Reverse(bs)

\* A u8 (line 52).
from_u8(b) == <<b>>

RECURSIVE strip_leading(_)
strip_leading(ds) == IF ds # <<>> /\ ds[1] = 0 THEN strip_leading(Tail(ds)) ELSE ds

\* '0'..'9', 'A'..'F'
HexDigit(d) == IF d < 10 THEN 48 + d ELSE 55 + d

\* The upper-case hexadecimal numeral of a number: no leading zeros, "0" for zero.
UpperHex(n) ==
  LET ds == strip_leading(n)
  IN  IF ds = <<>> THEN <<HexDigit(0)>>
      ELSE (IF ds[1] >= 16 THEN <<HexDigit(ds[1] \div 16)>> ELSE <<>>)
           \o <<HexDigit(ds[1] % 16)>>
           \o Concat([i \in 1..(Len(ds) - 1) |->
                        <<HexDigit(ds[i + 1] \div 16), HexDigit(ds[i + 1] % 16)>>])

RECURSIVE ZeroPad(_, _)
ZeroPad(s, width) == IF Len(s) >= width THEN s ELSE ZeroPad(<<48>> \o s, width)

\* format!("{:0wX}") (line 48): the numeral, zero-padded on the left to a
\* minimum width.
FormatHex(n, width) == ZeroPad(UpperHex(n), width)

(***************************************************************************)
(* DllInfo (lines 14-21) and parse_dll (lines 23-64).                      *)
(*                                                                         *)
(* A module file is what goblin's PE::parse makes of it:                   *)
(*   kind = "unreadable"  File::open or read_to_end fails (line 25)        *)
(*   kind = "malformed"   PE::parse fails (line 27)                        *)
(*   kind = "nodebugdir"  pe.debug_data is None (line 28)                  *)
(*   kind = "nocodeview"  codeview_pdb70_debug_info is None (line 29)      *)
(*   kind = "ok"          a CodeView PDB 7.0 record: filename, signature   *)
(* A call ends in one of three ways: Ok(value), Err(error), or a panic.    *)
(***************************************************************************)
DllInfo(dll_path, dll_guid, pdb_name, pdb_path, cab_path) ==
  [dll_path |-> dll_path, dll_guid |-> dll_guid, pdb_name |-> pdb_name,
   pdb_path |-> pdb_path, cab_path |-> cab_path]

NoInfo == DllInfo(<<>>, <<>>, <<>>, <<>>, <<>>)

\* Lines 46-53: the 16-byte signature as text.
dll_guid(guid_buf) ==
  FormatHex(from_le_bytes(SubSeq(guid_buf, 1, 4)), 8)
  \o FormatHex(from_le_bytes(SubSeq(guid_buf, 5, 6)), 4)
  \o FormatHex(from_le_bytes(SubSeq(guid_buf, 7, 8)), 4)
  \o Concat([i \in 1..8 |-> FormatHex(from_u8(guid_buf[8 + i]), 2)])

\* ".cab" (line 56)
CabExt == <<46, 99, 97, 98>>

\* Lines 36-63, given the file name and stem of the record's path (lines 36-44)
\* and the module's directory (lines 55, 59).
dll_info_of(dll_path, signature, name, stem, dir) ==
  IF ~name.some \/ ~stem.some
    THEN [tag |-> "Panic", msg |-> "parse pdb name failed", info |-> NoInfo]
  ELSE IF ~dir.some
    THEN [tag |-> "Panic", msg |-> "called Option::unwrap() on a None value",
          info |-> NoInfo]
  ELSE [tag |-> "Ok", msg |-> "",
        info |-> DllInfo(dll_path, dll_guid(signature), stem.val,
                         join(dir.val, name.val),
                         join(dir.val, stem.val \o CabExt))]

parse_debug_info(dll_path, signature, raw) ==
  dll_info_of(dll_path, signature, file_name(raw), file_stem(raw), parent(dll_path))

parse_dll(dll_path, module) ==
  IF module.kind = "unreadable" THEN [tag |-> "Err", msg |-> "io error", info |-> NoInfo]
  ELSE IF module.kind = "malformed"
    THEN [tag |-> "Panic", msg |-> "dll parse failed", info |-> NoInfo]
  ELSE IF module.kind = "nodebugdir"
    THEN [tag |-> "Panic", msg |-> "dll no debug data", info |-> NoInfo]
  ELSE IF module.kind = "nocodeview"
    THEN [tag |-> "Panic", msg |-> "dll no debug info", info |-> NoInfo]
  ELSE parse_debug_info(dll_path, module.signature, pdb_path_raw(module.filename))

(***************************************************************************)
(* download_cab (lines 66-118).                                            *)
(*                                                                         *)
(* A response is what the server answers: whether send() succeeds, the     *)
(* status, the content-length header (present or not, and its bytes) and   *)
(* the body as a stream of chunks, each of which arrives or is an error.   *)
(* io is what the local file system does: whether File::create succeeds.   *)
(*                                                                         *)
(* out_file is a tokio::fs::File.  Its write_all calls poll_write until    *)
(* the chunk is taken, and not at all for an empty chunk.  poll_write      *)
(* waits for the write before it, copies up to the buffer's size into the  *)
(* file's buffer, hands the write to the blocking pool and returns; the    *)
(* write itself runs later, and when it fails the error is kept for the    *)
(* file's next poll_write.  download_cab never flushes out_file, so it may *)
(* return with the last write still to run, and the failure of the last    *)
(* write is reported to nobody.                                            *)
(*   state  "idle": no write outstanding; "busy": a write handed over and  *)
(*          not yet run; "failed": the last write failed, not yet reported *)
(*   data   the bytes of the outstanding write                             *)
(*   pos    the file offset at which the next bytes land                   *)
(***************************************************************************)
\* "http://symbolserver.unity3d.com/" (line 67)
ServerRoot ==
  <<104, 116, 116, 112, 58, 47, 47, 115, 121, 109, 98, 111, 108, 115, 101, 114,
  118, 101, 114, 46, 117, 110, 105,
  116, 121, 51, 100, 46, 99, 111, 109, 47>>


\* A slip for C7: the age token left out of the URL.
cab_url_without_age(dll_info) ==
  ServerRoot \o dll_info.pdb_name \o <<46, 112, 100, 98, 47>>
  \o dll_info.dll_guid \o <<47>>
  \o dll_info.pdb_name \o <<46, 112, 100, 95>>

\* ".pdb/", "1/" and ".pd_" (line 67)
cab_url(dll_info) ==
  ServerRoot \o dll_info.pdb_name \o <<46, 112, 100, 98, 47>>
  \o dll_info.dll_guid \o <<49, 47>>
  \o dll_info.pdb_name \o <<46, 112, 100, 95>>

\* StatusCode::is_success (line 79)
is_success(status) == status >= 200 /\ status < 300

\* HeaderValue::to_str (line 85): visible ASCII and tab only.
to_str_ok(v) == \A i \in 1..Len(v) : (v[i] >= 32 /\ v[i] < 127) \/ v[i] = 9

\* str::parse::<u64> (line 86): an optional '+', then one or more decimal digits,
\* whose value is at most u64::MAX = 18446744073709551615.  The value itself is
\* only compared with 0 (line 89), so the result keeps whether it is 0.
RECURSIVE strip_zeros(_)
strip_zeros(ds) == IF ds # <<>> /\ ds[1] = 48 THEN strip_zeros(Tail(ds)) ELSE ds

U64MaxDigits ==
  <<49, 56, 52, 52, 54, 55, 52, 52, 48, 55, 51, 55, 48, 57, 53, 53, 49, 54, 49, 53>>

\* a <= b for digit strings of one length
RECURSIVE digits_le(_, _)
digits_le(a, b) ==
  IF a = <<>> THEN TRUE
  ELSE IF a[1] # b[1] THEN a[1] < b[1]
  ELSE digits_le(Tail(a), Tail(b))

parse_u64(v) ==
  LET ds == IF v # <<>> /\ v[1] = 43 THEN Tail(v) ELSE v
      nz == strip_zeros(ds)
  IN  IF /\ ds # <<>>
         /\ \A i \in 1..Len(ds) : ds[i] >= 48 /\ ds[i] <= 57
         /\ \/ Len(nz) < Len(U64MaxDigits)
            \/ Len(nz) = Len(U64MaxDigits) /\ digits_le(nz, U64MaxDigits)
        THEN [some |-> TRUE, zero |-> nz = <<>>]
        ELSE [some |-> FALSE, zero |-> FALSE]

\* Lines 83-89: whether total_size, which is 0 when the header is missing or does
\* not parse, is 0.
total_size_is_zero(resp) ==
  IF resp.has_length /\ to_str_ok(resp.length) /\ parse_u64(resp.length).some
    THEN parse_u64(resp.length).zero
    ELSE TRUE

\* File::create: the file exists and is empty afterwards.
create_file(fs, path) == [p \in DOMAIN fs \cup {path} |-> IF p = path THEN <<>> ELSE fs[p]]

append_file(fs, path, data) == [fs EXCEPT ![path] = @ \o data]

remove_file(fs, path) == [p \in DOMAIN fs \ {path} |-> fs[p]]

\* A file just created and opened for writing.
NewFile == [state |-> "idle", data |-> <<>>, pos |-> 0]

\* What a file holds after data is written at offset pos: a gap before pos reads
\* as zeros, and what lay beyond the written bytes stays.  A write of no bytes
\* leaves the file as it is.
write_at(content, pos, data) ==
  IF data = <<>> THEN content
  ELSE [i \in 1..Max({Len(content), pos + Len(data)}) |->
          IF i > pos /\ i <= pos + Len(data) THEN data[i - pos]
          ELSE IF i <= Len(content) THEN content[i]
          ELSE 0]

\* The write of an outstanding buffer as the blocking pool runs it: n of its
\* bytes reach the file, and the write has failed when n is not all of them.  A
\* file removed in the meantime is no longer reached under its path.
blocking_write_fs(fs, path, file, n) ==
  IF path \in DOMAIN fs
    THEN [fs EXCEPT ![path] = write_at(@, file.pos, Prefix(file.data, n))]
    ELSE fs

blocking_write_file(file, n) ==
  [state |-> IF n = Len(file.data) THEN "idle" ELSE "failed",
   data  |-> <<>>,
   pos   |-> file.pos + n]

\* The size of the buffer of a tokio file, 2 MiB: what one poll_write of
\* write_all (line 111) takes at most.
MaxBufSize == 2097152

\* The bytes one poll_write takes: the chunk, up to the buffer's size.
buffered(src) == IF Len(src) <= MaxBufSize THEN src ELSE Prefix(src, MaxBufSize)

\* The bytes of the chunk left for the next poll_write.
unbuffered(src) == SubSeq(src, Len(buffered(src)) + 1, Len(src))

\* tokio's File::poll_write under write_all (line 111), called when no write is
\* outstanding: the failure of the write before is returned, otherwise the
\* bytes are buffered.
poll_write(file, src) ==
  IF file.state = "failed"
    THEN [tag |-> "Err", msg |-> "write error", file |-> [file EXCEPT !.state = "idle"]]
    ELSE [tag |-> "Ok", msg |-> "",
          file |-> [state |-> "busy", data |-> buffered(src), pos |-> file.pos]]

\* The stream after a poll_write of its first chunk: what the buffer did not
\* take stays at the head for the next poll_write of the same write_all.
after_poll_write(stream) ==
  IF unbuffered(Head(stream).data) = <<>> THEN Tail(stream)
  ELSE <<[ok |-> TRUE, data |-> unbuffered(Head(stream).data)]>> \o Tail(stream)

\* Whether the next turn is a poll_write, which waits for the write before it.
polls_file(stream) == stream # <<>> /\ Head(stream).ok /\ Head(stream).data # <<>>

\* A slip for C2: the archive file created before the response is looked at.
download_cab_request_create_first(dll_info, fs, resp, io) ==
  IF ~resp.sent THEN [tag |-> "Err", msg |-> "send error", fs |-> fs]
  ELSE IF ~io.create_ok THEN [tag |-> "Err", msg |-> "create error", fs |-> fs]
  ELSE IF ~is_success(resp.status)
    THEN [tag |-> "Err", msg |-> "Cab request failed",
          fs |-> create_file(fs, dll_info.cab_path)]
  ELSE IF total_size_is_zero(resp)
    THEN [tag |-> "Err", msg |-> "Cab size wrong",
          fs |-> create_file(fs, dll_info.cab_path)]
  ELSE [tag |-> "Ok", msg |-> "", fs |-> create_file(fs, dll_info.cab_path)]

\* Lines 66-93 of download_cab: the request, the checks of the response and the
\* creation of the archive file.
download_cab_request(dll_info, fs, resp, io) ==
  IF ~resp.sent THEN [tag |-> "Err", msg |-> "send error", fs |-> fs]
  ELSE IF ~is_success(resp.status)
    THEN [tag |-> "Err", msg |-> "Cab request failed", fs |-> fs]
  ELSE IF total_size_is_zero(resp)
    THEN [tag |-> "Err", msg |-> "Cab size wrong", fs |-> fs]
  ELSE IF ~io.create_ok THEN [tag |-> "Err", msg |-> "create error", fs |-> fs]
  ELSE [tag |-> "Ok", msg |-> "", fs |-> create_file(fs, dll_info.cab_path)]

\* A poll_write's result as the loop takes it.
chunk_polled(stream, r) ==
  [tag |-> r.tag, msg |-> r.msg, file |-> r.file,
   stream |-> IF r.tag = "Ok" THEN after_poll_write(stream) ELSE stream,
   done |-> r.tag = "Err"]

\* Lines 109-117 of download_cab, one step of the loop: the end of the stream
\* returns Ok(()), a chunk that is an error returns it, an empty chunk is
\* passed over without a look at the file, and any other chunk goes to one
\* poll_write of write_all.  done: download_cab has returned.
download_cab_chunk(stream, file) ==
  IF stream = <<>>
    THEN [tag |-> "Ok", msg |-> "", file |-> file, stream |-> stream, done |-> TRUE]
  ELSE IF ~Head(stream).ok
    THEN [tag |-> "Err", msg |-> "stream error", file |-> file, stream |-> stream,
          done |-> TRUE]
  ELSE IF Head(stream).data = <<>>
    THEN [tag |-> "Ok", msg |-> "", file |-> file, stream |-> Tail(stream),
          done |-> FALSE]
  ELSE chunk_polled(stream, poll_write(file, Head(stream).data))

(***************************************************************************)
(* extract_cab (lines 120-148).                                            *)
(*                                                                         *)
(* The cabinet format is the cab crate's.  Here an archive keeps the       *)
(* layout of a cabinet file at a small scale:                              *)
(*   header        "MSCF", the number of folders, the number of files      *)
(*   folders       one byte <<1>> for each folder                          *)
(*   file entries  <<folder, name>> for each file                          *)
(*   data          <<state, n, d1, ..., dn>> for each file, in that order  *)
(* Cabinet::new reads the header, the folders and the file entries, and    *)
(* fails when they are cut short or name a folder that is not there.  The  *)
(* data is read when a file is: state = 1 is data that decompresses,       *)
(* state = 0 data whose first block is bad (read_file fails), state = 2    *)
(* data with a bad later block (a read of the reader fails); data cut      *)
(* short fails in read_file when its block has no start, and in a later    *)
(* read otherwise.                                                         *)
(***************************************************************************)
CabMagic == <<77, 83, 67, 70>>

\* The length of the header.
HeaderLen == Len(CabMagic) + 2

\* The file entries, k of them, from position i on.
file_entries(bytes, i, k) == [j \in 1..k |-> [folder |-> bytes[i + 2 * (j - 1)],
                                              name   |-> bytes[i + 2 * (j - 1) + 1]]]

\* Header, folders and file entries of nf folders and k files.
cabinet_of(bytes, nf, k) ==
  IF /\ Len(bytes) >= HeaderLen + nf + 2 * k
     /\ \A f \in 1..nf : bytes[HeaderLen + f] = 1
     /\ \A j \in 1..k : file_entries(bytes, HeaderLen + nf + 1, k)[j].folder \in 1..nf
    THEN [ok |-> TRUE, folders |-> nf,
          files |-> file_entries(bytes, HeaderLen + nf + 1, k),
          data |-> SubSeq(bytes, HeaderLen + nf + 2 * k + 1, Len(bytes))]
    ELSE [ok |-> FALSE, folders |-> 0, files |-> <<>>, data |-> <<>>]

\* cab::Cabinet::new (line 128)
cabinet_new(bytes) ==
  IF Len(bytes) >= HeaderLen /\ Prefix(bytes, Len(CabMagic)) = CabMagic
    THEN cabinet_of(bytes, bytes[Len(CabMagic) + 1], bytes[Len(CabMagic) + 2])
    ELSE [ok |-> FALSE, folders |-> 0, files |-> <<>>, data |-> <<>>]

\* The names of the files of folder f, in the order of their entries.
RECURSIVE names_in_folder(_, _)
names_in_folder(files, f) ==
  IF files = <<>> THEN <<>>
  ELSE (IF Head(files).folder = f THEN <<Head(files).name>> ELSE <<>>)
       \o names_in_folder(Tail(files), f)

\* Lines 130-136: the names of the entries, folder by folder.
file_names(cabinet) ==
  Concat([f \in 1..cabinet.folders |-> names_in_folder(cabinet.files, f)])

\* The data of the k-th file from position i of the data on, as a reader:
\*   fails  "open" (read_file fails), "read" (a later read fails) or "no"
\*   data   the bytes that can be read
RECURSIVE data_reader(_, _, _)
data_reader(data, i, k) ==
  IF i + 1 > Len(data) THEN [fails |-> "open", data |-> <<>>]
  ELSE IF k > 1 THEN data_reader(data, i + 2 + data[i + 1], k - 1)
  ELSE IF data[i] = 0 THEN [fails |-> "open", data |-> <<>>]
  ELSE IF i + 1 + data[i + 1] > Len(data)
    THEN [fails |-> "read", data |-> SubSeq(data, i + 2, Len(data))]
  ELSE IF data[i] = 1
    THEN [fails |-> "no", data |-> SubSeq(data, i + 2, i + 1 + data[i + 1])]
  ELSE [fails |-> "read", data |-> SubSeq(data, i + 2, i + data[i + 1])]

\* The first entry of that name.
entry_index(files, name) ==
  CHOOSE k \in 1..Len(files) :
    /\ files[k].name = name
    /\ \A j \in 1..(k - 1) : files[j].name # name

\* Cabinet::read_file (line 139)
read_file(cabinet, name) ==
  data_reader(cabinet.data, 1, entry_index(cabinet.files, name))

\* The bytes a copy has written when a read fails: what could be read, at most
\* cut of it.
written_before_read_failure(data, cut) ==
  IF cut < Len(data) THEN Prefix(data, cut) ELSE data

\* The bytes a copy that fails has written: fewer than all, at most cut.
written_before_failure(data, cut) ==
  IF data = <<>> THEN <<>>
  ELSE IF cut < Len(data) THEN Prefix(data, cut)
  ELSE Prefix(data, Len(data) - 1)

\* Lines 140-141 for one entry, whose reader line 139 has made.  io says where
\* File::create fails (create_fail_at, 0: nowhere), where a write of io::copy
\* fails (copy_fail_at) and how many bytes a failing copy has written (cut).
\* When pdb_path is cab_path itself, File::create truncates the archive under
\* the reader: the copy then writes what the reader had buffered, which is all
\* of the entry (io.alias_ok) or a part of it before the read fails.  A copy of
\* no bytes writes nothing and cannot fail in a write.
copy_file(reader, i, fs, dll_info, io) ==
  IF io.create_fail_at = i
    THEN [tag |-> "Err", msg |-> "create error", fs |-> fs]
  ELSE IF reader.fails = "read"
    THEN [tag |-> "Err", msg |-> "read error",
          fs |-> append_file(create_file(fs, dll_info.pdb_path), dll_info.pdb_path,
                             written_before_read_failure(reader.data, io.cut))]
  ELSE IF dll_info.pdb_path = dll_info.cab_path /\ ~io.alias_ok
    THEN [tag |-> "Err", msg |-> "read error",
          fs |-> append_file(create_file(fs, dll_info.pdb_path), dll_info.pdb_path,
                             written_before_failure(reader.data, io.cut))]
  ELSE IF io.copy_fail_at = i /\ reader.data # <<>>
    THEN [tag |-> "Err", msg |-> "write error",
          fs |-> append_file(create_file(fs, dll_info.pdb_path), dll_info.pdb_path,
                             written_before_failure(reader.data, io.cut))]
  ELSE [tag |-> "Ok", msg |-> "",
        fs |-> append_file(create_file(fs, dll_info.pdb_path), dll_info.pdb_path,
                           reader.data)]

\* Lines 138-142: each entry in turn is read (an error of read_file returns
\* before pdb_path is touched) and copied to pdb_path, which is created anew
\* for it.  copied counts the entries copied.
RECURSIVE copy_files(_, _, _, _, _, _)
copy_files(cabinet, files, i, fs, dll_info, io) ==
  IF i > Len(files) THEN [tag |-> "Ok", msg |-> "", fs |-> fs, copied |-> i - 1]
  ELSE IF read_file(cabinet, files[i]).fails = "open"
    THEN [tag |-> "Err", msg |-> "read_file error", fs |-> fs, copied |-> i - 1]
  ELSE
    LET r == copy_file(read_file(cabinet, files[i]), i, fs, dll_info, io)
    IN  IF r.tag = "Ok"
          THEN copy_files(cabinet, files, i + 1, r.fs, dll_info, io)
          ELSE [tag |-> "Err", msg |-> r.msg, fs |-> r.fs, copied |-> i - 1]

\* Lines 130-142
extract_files(cabinet, dll_info, fs, io) ==
  IF ~cabinet.ok
    THEN [tag |-> "Err", msg |-> "not a cabinet", fs |-> fs, copied |-> 0]
    ELSE copy_files(cabinet, file_names(cabinet), 1, fs, dll_info, io)

extract_cab(dll_info, fs, io) ==
  IF dll_info.cab_path \notin DOMAIN fs \/ ~io.open_ok
    THEN [tag |-> "Err", msg |-> "open error", fs |-> fs, copied |-> 0]
    ELSE extract_files(cabinet_new(fs[dll_info.cab_path]), dll_info, fs, io)

\* A slip for C10: the result of remove_file dropped.
delete_cab_unchecked(dll_info, fs, io) ==
  IF dll_info.cab_path \in DOMAIN fs /\ io.remove_ok
    THEN [tag |-> "Ok", msg |-> "", fs |-> remove_file(fs, dll_info.cab_path)]
    ELSE [tag |-> "Ok", msg |-> "", fs |-> fs]

(***************************************************************************)
(* delete_cab (lines 150-153).  io.remove_ok: whether the file system      *)
(* lets the file go.                                                       *)
(***************************************************************************)
delete_cab(dll_info, fs, io) ==
  IF dll_info.cab_path \in DOMAIN fs /\ io.remove_ok
    THEN [tag |-> "Ok", msg |-> "", fs |-> remove_file(fs, dll_info.cab_path)]
    ELSE [tag |-> "Err", msg |-> "remove error", fs |-> fs]

(***************************************************************************)
(* The inputs of a run: the --input path, the module file found there, the *)
(* files that already exist beside it, and (drawn as each stage runs) the  *)
(* server's response and the file system's failures.                       *)
(***************************************************************************)
MaxDirDepth == 2

ByteSampleCount == 5

MaxFolders == 2

MaxFiles == 2

\* The signature of a CodeView PDB 7.0 record is 16 bytes (guid_buf[0..15]).
SigLen == 16

\* "m.dll"
ModuleName == <<109, 46, 100, 108, 108>>

\* k times "d/"
RECURSIVE Dirs(_)
Dirs(k) == IF k = 0 THEN <<>> ELSE <<100, 47>> \o Dirs(k - 1)

\* Paths of a module file: relative, absolute, "./" and "../", with doubled
\* separators and "." components.
ParseDllPaths ==
  { r \o Dirs(k) \o ModuleName :
      r \in { <<>>, <<47>>, <<46, 47>>, <<46, 46, 47>> }, k \in 0..MaxDirDepth }
  \cup { <<100, 47, 47>> \o ModuleName, <<100, 47, 46, 47>> \o ModuleName }

RunDllPaths == { ModuleName, <<100, 47>> \o ModuleName, <<47>> \o ModuleName }

\* File-name fields of a debug record.
ParseFilenames ==
  {
    <<97, 46, 112, 100, 98, 0>>,  \* a.pdb NUL
    <<97, 46, 112, 100, 98>>,  \* a.pdb
    <<67, 58, 92, 98, 92, 97, 46, 112, 100, 98, 0>>,  \* C:\b\a.pdb NUL
    <<47, 98, 47, 97, 46, 112, 100, 98, 0>>,  \* /b/a.pdb NUL
    <<98, 47, 97, 46, 112, 100, 98, 32, 0>>,  \* b/a.pdb SPACE NUL
    <<97, 46, 112, 100, 98, 0, 0>>,  \* a.pdb NUL NUL
    <<97, 46, 112, 100, 98, 0, 32>>,  \* a.pdb NUL SPACE
    <<97, 0>>,  \* a NUL
    <<46, 112, 100, 98, 0>>,  \* .pdb NUL
    <<97, 46, 98, 46, 112, 100, 98, 0>>,  \* a.b.pdb NUL
    <<97, 46, 0>>,  \* a. NUL
    <<98, 47, 47, 97, 46, 112, 100, 98, 47, 46, 0>>,  \* b//a.pdb/. NUL
    <<98, 47, 0>>,  \* b/ NUL
    <<97, 46, 99, 97, 98, 0>>,  \* a.cab NUL
    <<195, 169, 46, 112, 100, 98, 0>>,  \* e-acute .pdb NUL
    <<97, 46, 112, 100, 98, 194, 160, 0>>,  \* a.pdb NBSP NUL
    <<>>,  \* empty
    <<0>>,  \* NUL
    <<32, 0>>,  \* SPACE NUL
    <<46, 46, 0>>,  \* .. NUL
    <<98, 47, 46, 46, 0>>,  \* b/.. NUL
    <<47, 0>>,  \* / NUL
    <<46, 0>>,  \* . NUL
    <<255, 97, 46, 112, 100, 98, 0>>,  \* 0xFF a.pdb NUL: not UTF-8
    <<97, 195, 46, 112, 100, 98, 0>>,  \* a 0xC3 .pdb NUL: not UTF-8
    <<98, 47, 97, 128, 46, 112, 100, 98, 0>>   \* b/a 0x80 .pdb NUL: not UTF-8
  }

RunFilenames ==
  {
    <<97, 46, 112, 100, 98, 0>>,  \* a.pdb NUL
    <<47, 98, 47, 97, 46, 112, 100, 98, 0>>,  \* /b/a.pdb NUL
    <<97, 46, 99, 97, 98, 0>>,  \* a.cab NUL
    <<46, 46, 0>>,  \* .. NUL
    <<255, 97, 46, 112, 100, 98, 0>>   \* 0xFF a.pdb NUL: not UTF-8
  }

ByteSamples == { (k * 51) % 256 : k \in 0..ByteSampleCount } \cup { 9, 10, 15, 16, 160 }

\* DE AD BE EF 01 02 ... 0C
ExampleSig == <<222, 173, 190, 239, 1, 2, 3, 4, 5, 6, 7, 8, 9, 10, 11, 12>>

\* Signatures with byte b at position i and f elsewhere.
ParseSigs ==
  { [j \in 1..SigLen |-> IF j = i THEN b ELSE f] :
      i \in 1..SigLen, b \in ByteSamples, f \in {0, 17, 255} }
  \cup { ExampleSig }

RunSigs == { ExampleSig, [j \in 1..SigLen |-> 0] }

Module(kind, filename, signature) ==
  [kind |-> kind, filename |-> filename, signature |-> signature]

BrokenModules ==
  { Module(k, <<>>, [j \in 1..SigLen |-> 0]) :
      k \in {"unreadable", "malformed", "nodebugdir", "nocodeview"} }

ParseModules ==
  BrokenModules
  \cup { Module("ok", f, g) : f \in ParseFilenames, g \in RunSigs }
  \cup { Module("ok", f, g) : f \in { <<97, 46, 112, 100, 98, 0>> }, g \in ParseSigs }

RunModules == BrokenModules \cup { Module("ok", f, g) : f \in RunFilenames, g \in RunSigs }

EmptyFs == [p \in {} |-> <<>>]

\* What a file left by an earlier run holds.
OldData == <<9, 9>>

\* The files that may already exist where the run will write.
OutputPaths(r) == IF r.tag = "Ok" THEN {r.info.cab_path, r.info.pdb_path} ELSE {}

ExistingFiles(path, mod) ==
  { [p \in S |-> OldData] : S \in SUBSET OutputPaths(parse_dll(path, mod)) }

\* Archives of nf folders of k files each, the j-th file of folder f named
\* 10 * f + j and holding that byte and a 0; last is the state of the last
\* file's data, and every other file's data decompresses.
FileEntries(nf, k) ==
  Concat([f \in 1..nf |-> Concat([j \in 1..k |-> <<f, 10 * f + j>>])])

FileData(nf, k, last) ==
  Concat([f \in 1..nf |->
    Concat([j \in 1..k |-> <<IF f = nf /\ j = k THEN last ELSE 1, 2, 10 * f + j, 0>>])])

Archive(nf, k, last) ==
  CabMagic \o <<nf, nf * k>> \o [f \in 1..nf |-> 1]
  \o FileEntries(nf, k) \o FileData(nf, k, last)

\* The archives, and bodies that are none: empty, one byte, a cut magic, a cut
\* header, a file entry of a folder that is not there.
Bodies ==
  { Archive(nf, k, 1) : nf \in 0..MaxFolders, k \in 0..MaxFiles }
  \cup { Archive(nf, k, last) : nf \in 1..MaxFolders, k \in 1..MaxFiles, last \in {0, 2} }
  \cup { <<>>, <<0>>, <<77, 83>>, CabMagic \o <<1>>,
         CabMagic \o <<1, 1, 1, 2, 11, 1, 2, 11, 0>> }

\* A body in two chunks, the chunk at bad (if any) a stream error.
Chunks(body, bad) ==
  LET h == Len(body) \div 2
  IN  << [ok |-> bad # 1, data |-> Prefix(body, h)],
         [ok |-> bad # 2, data |-> SubSeq(body, h + 1, Len(body))] >>

\* A body in one chunk, followed by an empty chunk.
ChunksWithEmpty(body) == << [ok |-> TRUE, data |-> body], [ok |-> TRUE, data |-> <<>>] >>

ChunkLists(body) == { Chunks(body, bad) : bad \in 0..2 } \cup { ChunksWithEmpty(body) }

\* A number in decimal digits.
RECURSIVE Decimal(_)
Decimal(n) == IF n < 10 THEN <<48 + n>> ELSE Decimal(n \div 10) \o <<48 + (n % 10)>>

NoResponse == [sent |-> FALSE, status |-> 0, has_length |-> FALSE, length |-> <<>>,
               chunks |-> <<>>]

\* The answers to the GET.  The content-length header is missing (a body sent in
\* chunked encoding) or is the length of the body, with or without a leading
\* zero; the body arrives whole or ends in a stream error.
ResponsesOf(body) ==
  { [sent |-> TRUE, status |-> st, has_length |-> h.has, length |-> h.val,
     chunks |-> cs] :
      st \in {200, 404, 500},
      h \in { [has |-> FALSE, val |-> <<>>],
              [has |-> TRUE, val |-> Decimal(Len(body))],
              [has |-> TRUE, val |-> <<48>> \o Decimal(Len(body))] },
      cs \in ChunkLists(body) }

Responses == { NoResponse } \cup UNION { ResponsesOf(b) : b \in Bodies }

DownloadIO == [create_ok : BOOLEAN]

ExtractIO == [open_ok : BOOLEAN, create_fail_at : 0..(MaxFolders * MaxFiles),
              copy_fail_at : 0..(MaxFolders * MaxFiles), cut : 0..1,
              alias_ok : BOOLEAN]

DeleteIO == [remove_ok : BOOLEAN]

(***************************************************************************)
(* The command line (lines 155-160, 164).  clap's Args::parse ends the     *)
(* process itself when the arguments are not one --input with its value:   *)
(* with status 2 after a usage error, with status 0 after --help or        *)
(* --version.                                                              *)
(***************************************************************************)
CommandLine(kind, input) == [kind |-> kind, input |-> input]

\* upd --input <path>; upd; upd --input <path> x; upd --help; upd --version
OtherCommandLines ==
  { CommandLine(k, <<>>) : k \in {"missing", "unexpected", "help", "version"} }

Args_parse(args) ==
  IF args.kind = "input" THEN [tag |-> "Ok", code |-> -1, input |-> args.input]
  ELSE IF args.kind \in {"help", "version"}
    THEN [tag |-> "Exit", code |-> 0, input |-> <<>>]
  ELSE [tag |-> "Exit", code |-> 2, input |-> <<>>]

(***************************************************************************)
(* main (lines 162-179) as a state machine.                                *)
(*   args       the command line                                           *)
(*   dll_path   args.input, once parsed                                    *)
(*   pc         what main is about to do, or "exit":                       *)
(*              "args", "print_input", "parse", "print_info", "fetch",     *)
(*              "stream" (the loop of download_cab), "extract", "cleanup"  *)
(*   started    the stages started so far, in order                        *)
(*   failed     the stage whose failure ended the run, or "none"           *)
(*   exit_code  -1 while running; 0 when main returns Ok(()) or clap has   *)
(*              printed help; 2 on a usage error; 101 on panic             *)
(*   panic_msg  the panic's message                                        *)
(*   parse_tag  how the call of parse_dll ended: "Ok", "Err", "Panic"      *)
(*   response   the status line of the server's response to the GET        *)
(*   url        the URL of the GET                                         *)
(*   stream     the chunks of the body still to arrive                     *)
(*   out_file   the archive file as download_cab holds it                  *)
(*   copied     the number of archive entries extract_cab copied           *)
(***************************************************************************)
VARIABLES args, dll_path, module, fs, pc, started, failed, exit_code, panic_msg,
          dll_info, parse_tag, response, url, stream, out_file, copied

vars == <<args, dll_path, module, fs, pc, started, failed, exit_code, panic_msg,
          dll_info, parse_tag, response, url, stream, out_file, copied>>

InitMain ==
  /\ started = <<>>
  /\ failed = "none"
  /\ exit_code = -1
  /\ panic_msg = ""
  /\ dll_info = NoInfo
  /\ parse_tag = "none"
  /\ response = [sent |-> FALSE, status |-> 0]
  /\ url = <<>>
  /\ stream = <<>>
  /\ out_file = NewFile
  /\ copied = 0

InitInput ==
  /\ args \in { CommandLine("input", p) : p \in RunDllPaths }
  /\ module \in RunModules
  /\ fs \in ExistingFiles(args.input, module)

InitOther ==
  /\ args \in OtherCommandLines
  /\ module = Module("unreadable", <<>>, [j \in 1..SigLen |-> 0])
  /\ fs = EmptyFs

Init ==
  /\ InitInput \/ InitOther
  /\ pc = "args"
  /\ dll_path = <<>>
  /\ InitMain

\* main about to call parse_dll (line 169), the command line parsed and printed.
InitParse ==
  /\ args \in { CommandLine("input", p) : p \in ParseDllPaths }
  /\ dll_path = args.input
  /\ module \in ParseModules
  /\ fs = EmptyFs
  /\ pc = "parse"
  /\ InitMain

\* Lines 164-165
MainArgs ==
  /\ pc = "args"
  /\ IF Args_parse(args).tag = "Ok"
       THEN /\ dll_path' = Args_parse(args).input
            /\ pc' = "print_input"
            /\ UNCHANGED exit_code
       ELSE /\ pc' = "exit"
            /\ exit_code' = Args_parse(args).code
            /\ UNCHANGED dll_path
  /\ UNCHANGED <<args, module, fs, started, failed, panic_msg, dll_info, parse_tag,
                 response, url, stream, out_file, copied>>

\* println! (lines 167, 170): it panics when standard output cannot be written.
println(ok, next) ==
  IF ok
    THEN /\ pc' = next
         /\ UNCHANGED <<exit_code, panic_msg>>
    ELSE /\ pc' = "exit"
         /\ exit_code' = 101
         /\ panic_msg' = "failed printing to stdout"

\* Line 167
MainPrintInput ==
  /\ pc = "print_input"
  /\ \E ok \in BOOLEAN : println(ok, "parse")
  /\ UNCHANGED <<args, dll_path, module, fs, started, failed, dll_info, parse_tag,
                 response, url, stream, out_file, copied>>

\* A slip for C1: an Err is reported and main goes on.
ExpectReportOnly(r, stage, message, next) ==
  IF r.tag = "Panic"
    THEN /\ pc' = "exit"
         /\ exit_code' = 101
         /\ failed' = stage
         /\ panic_msg' = r.msg
    ELSE /\ pc' = next
         /\ exit_code' = IF next = "exit" THEN 0 ELSE exit_code
         /\ failed' = IF r.tag = "Ok" THEN failed ELSE stage
         /\ panic_msg' = IF r.tag = "Ok" THEN panic_msg ELSE message

\* Result::expect (lines 169-176): Ok lets main go on (after the last stage it
\* returns Ok(()), exit status 0); Err panics with the stage's message, and a
\* panic in the callee unwinds through main: exit status 101 either way.
Expect(r, stage, message, next) ==
  IF r.tag = "Ok"
    THEN /\ pc' = next
         /\ exit_code' = IF next = "exit" THEN 0 ELSE exit_code
         /\ UNCHANGED <<failed, panic_msg>>
    ELSE /\ pc' = "exit"
         /\ exit_code' = 101
         /\ failed' = stage
         /\ panic_msg' = IF r.tag = "Panic" THEN r.msg ELSE message

ParseReturns(r) ==
  /\ parse_tag' = r.tag
  /\ dll_info' = r.info
  /\ Expect(r, "parse", "parse dll failed", "print_info")

\* Line 169
MainParse ==
  /\ pc = "parse"
  /\ started' = Append(started, "parse")
  /\ ParseReturns(parse_dll(dll_path, module))
  /\ UNCHANGED <<args, dll_path, module, fs, response, url, stream, out_file, copied>>

\* Line 170
MainPrintInfo ==
  /\ pc = "print_info"
  /\ \E ok \in BOOLEAN : println(ok, "fetch")
  /\ UNCHANGED <<args, dll_path, module, fs, started, failed, dll_info, parse_tag,
                 response, url, stream, out_file, copied>>

RequestReturns(r, chunks) ==
  /\ fs' = r.fs
  /\ stream' = IF r.tag = "Ok" THEN chunks ELSE stream
  /\ Expect(r, "fetch", "download cab failed", "stream")

\* Line 172, download_cab up to the creation of the archive file (lines 66-93)
MainDownload ==
  /\ pc = "fetch"
  /\ started' = Append(started, "fetch")
  /\ url' = cab_url(dll_info)
  /\ out_file' = NewFile
  /\ \E resp \in Responses, io \in DownloadIO :
       /\ response' = [sent |-> resp.sent, status |-> resp.status]
       /\ RequestReturns(download_cab_request(dll_info, fs, resp, io), resp.chunks)
  /\ UNCHANGED <<args, dll_path, module, dll_info, parse_tag, copied>>

ChunkReturns(r) ==
  /\ out_file' = r.file
  /\ stream' = r.stream
  /\ Expect(r, "fetch", "download cab failed", IF r.done THEN "extract" ELSE "stream")

\* Line 172, download_cab in its loop (lines 109-117): the next chunk of the
\* stream, the next part of a chunk larger than the buffer, or the stream's
\* end.  A poll_write first waits for the write before it.
MainDownloadChunk ==
  /\ pc = "stream"
  /\ polls_file(stream) => out_file.state # "busy"
  /\ ChunkReturns(download_cab_chunk(stream, out_file))
  /\ UNCHANGED <<args, dll_path, module, fs, started, dll_info, parse_tag, response,
                 url, copied>>

\* The blocking pool runs the outstanding write of out_file (line 111), while
\* main goes on or, at its end, waits for the pool.
BlockingWrite ==
  /\ out_file.state = "busy"
  /\ \E n \in 0..Len(out_file.data) :
       /\ fs' = blocking_write_fs(fs, dll_info.cab_path, out_file, n)
       /\ out_file' = blocking_write_file(out_file, n)
  /\ UNCHANGED <<args, dll_path, module, pc, started, failed, exit_code, panic_msg,
                 dll_info, parse_tag, response, url, stream, copied>>

ExtractReturns(r) ==
  /\ fs' = r.fs
  /\ copied' = r.copied
  /\ Expect(r, "extract", "extract cab failed", "cleanup")

\* Line 174
MainExtract ==
  /\ pc = "extract"
  /\ started' = Append(started, "extract")
  /\ \E io \in ExtractIO : ExtractReturns(extract_cab(dll_info, fs, io))
  /\ UNCHANGED <<args, dll_path, module, dll_info, parse_tag, response, url, stream,
                 out_file>>

DeleteReturns(r) ==
  /\ fs' = r.fs
  /\ Expect(r, "cleanup", "delete cab failed", "exit")

\* Lines 176-178
MainDelete ==
  /\ pc = "cleanup"
  /\ started' = Append(started, "cleanup")
  /\ \E io \in DeleteIO : DeleteReturns(delete_cab(dll_info, fs, io))
  /\ UNCHANGED <<args, dll_path, module, dll_info, parse_tag, response, url, stream,
                 out_file, copied>>

Next ==
  \/ MainArgs
  \/ MainPrintInput
  \/ MainParse
  \/ MainPrintInfo
  \/ MainDownload
  \/ MainDownloadChunk
  \/ BlockingWrite
  \/ MainExtract
  \/ MainDelete

Spec == Init /\ [][Next]_vars

\* The header extractor and the path derivation alone, over wide inputs.
NextParse == MainParse

SpecParse == InitParse /\ [][NextParse]_vars

(***************************************************************************)
(* The claims.                                                             *)
(***************************************************************************)
StageOrder == <<"parse", "fetch", "extract", "cleanup">>

\* C1: the stages start in the order parse, fetch, extract, cleanup; once a stage
\* has failed (its call returned Err or panicked) the run is over with exit
\* status 101 and the failed stage is the last one started; a run ends with
\* status 0 only when no stage failed, and a run for a module that ends with
\* status 0 ran all four.
C1_StagesInOrderAbortOnFailure ==
  /\ Len(started) <= Len(StageOrder)
  /\ started = Prefix(StageOrder, Len(started))
  /\ failed # "none" =>
       /\ pc = "exit"
       /\ exit_code = 101
       /\ started[Len(started)] = failed
  /\ exit_code = 0 => failed = "none"
  /\ (exit_code = 0 /\ args.kind = "input") => started = StageOrder

\* C1's case: the extract stage failed after parse and fetch succeeded.
C1_Witness ==
  /\ failed = "extract"
  /\ started = <<"parse", "fetch", "extract">>
  /\ exit_code = 101
  /\ pc = "exit"

\* C2: a call of download_cab whose response has a status that is not a success
\* returns at once, leaves every file as it was (the archive is neither created
\* nor truncated) and ends the run with the fetch stage's failure.
C2_FailedStatusLeavesArchive ==
  [][(pc = "fetch" /\ response'.sent /\ ~is_success(response'.status)) =>
       /\ fs' = fs
       /\ pc' = "exit"
       /\ failed' = "fetch"
       /\ exit_code' = 101
       /\ panic_msg' = "download cab failed"]_vars

\* C2's case: a 404 was answered while an archive of an earlier run existed, and
\* that file still holds what it held.
C2_Witness ==
  /\ failed = "fetch"
  /\ response = [sent |-> TRUE, status |-> 404]
  /\ dll_info.cab_path \in DOMAIN fs
  /\ fs[dll_info.cab_path] = OldData

\* C3 as claimed: whenever the extract stage has run and copied no entry to
\* pdb_path, the stage has failed (stated for a symbol file that is not the
\* archive file itself).
C3_EmptyArchiveIsAnError ==
  (Len(started) = 3 /\ copied = 0 /\ dll_info.pdb_path # dll_info.cab_path)
    => failed = "extract"

\* C4 as claimed: a run for a module that ends with exit status 0 copied an entry
\* to pdb_path in the extract stage, and the symbol file exists (stated for a
\* symbol file that is not the archive file itself).
C4_SuccessMeansSymbolFile ==
  (args.kind = "input" /\ exit_code = 0 /\ dll_info.pdb_path # dll_info.cab_path)
    => copied > 0 /\ dll_info.pdb_path \in DOMAIN fs

\* C5 as claimed: for a module without a debug directory, parse_dll returns Err
\* (it does not panic and does not return an identity).
C5_MissingDebugDirectoryIsAnErr ==
  (parse_tag # "none" /\ module.kind = "nodebugdir") => parse_tag = "Err"

\* '0'..'9' and 'A'..'F'
UpperHexChars == (48..57) \cup (65..70)

HexValue(c) == IF c <= 57 THEN c - 48 ELSE c - 55

\* The byte written by the k-th pair of hexadecimal digits.
HexByte(text, k) == 16 * HexValue(text[2 * k - 1]) + HexValue(text[2 * k])

\* The 16 bytes a signature text stands for: a little-endian u32, two
\* little-endian u16s, then eight bytes in order.
DecodeSignature(text) ==
  <<HexByte(text, 4), HexByte(text, 3), HexByte(text, 2), HexByte(text, 1),
    HexByte(text, 6), HexByte(text, 5), HexByte(text, 8), HexByte(text, 7)>>
  \o [i \in 1..8 |-> HexByte(text, 8 + i)]

\* C6: the signature text of a parsed module is 32 upper-case hexadecimal
\* characters, and decoding it gives back the 16 bytes of the signature.
C6_SignatureRoundTrip ==
  parse_tag = "Ok" =>
    /\ Len(dll_info.dll_guid) = 32
    /\ \A i \in 1..Len(dll_info.dll_guid) : dll_info.dll_guid[i] \in UpperHexChars
    /\ DecodeSignature(dll_info.dll_guid) = module.signature

\* C6's case: DE AD BE EF 01 02 ... 0C was formatted as
\* "EFBEADDE0201040305060708090A0B0C".
C6_Witness ==
  /\ parse_tag = "Ok"
  /\ module.signature = ExampleSig
  /\ dll_info.dll_guid =
       <<69, 70, 66, 69, 65, 68, 68, 69, 48, 50, 48, 49, 48, 52, 48, 51, 48, 53, 48,
         54, 48, 55, 48, 56, 48, 57, 48, 65, 48, 66, 48, 67>>

\* The stem of the debug record's file name.
RecordStem == file_stem(pdb_path_raw(module.filename)).val

\* C7: the URL of the GET is the server root followed by <stem>.pdb/, the
\* 32-character signature, 1/, and <stem>.pd_.
C7_LookupKey ==
  Len(started) >= 2 =>
    /\ Len(dll_info.dll_guid) = 32
    /\ url = ServerRoot \o RecordStem \o <<46, 112, 100, 98, 47>>
             \o dll_info.dll_guid \o <<49>> \o <<47>>
             \o RecordStem \o <<46, 112, 100, 95>>

\* C7's case: the GET for a.pdb with signature DE AD BE EF 01 02 ... 0C went to
\* http://symbolserver.unity3d.com/a.pdb/EFBEADDE0201040305060708090A0B0C1/a.pd_
C7_Witness ==
  /\ response.sent
  /\ url =
       <<104, 116, 116, 112, 58, 47, 47, 115, 121, 109, 98, 111, 108, 115, 101, 114,
         118, 101, 114, 46, 117, 110, 105, 116, 121, 51, 100, 46, 99, 111, 109, 47,
         97, 46, 112, 100, 98, 47, 69, 70, 66, 69, 65, 68, 68, 69, 48, 50, 48, 49,
         48, 52, 48, 51, 48, 53, 48, 54, 48, 55, 48, 56, 48, 57, 48, 65, 48, 66, 48,
         67, 49, 47, 97, 46, 112, 100, 95>>

\* The directory part of a path as written: the path without its last n bytes.
WithoutName(path, name) == Prefix(path, Len(path) - Len(name))

\* C8: for a parsed module, dll_path is carried through unchanged; pdb_path and
\* cab_path have dll_path's parent as their parent and are one directory text
\* followed by the record's file name and by <stem>.cab; and no module path makes
\* the derivation fail (the unwrap of the parent never panics).
C8_PathsBesideModule ==
  /\ parse_tag = "Ok" =>
       /\ dll_info.dll_path = dll_path
       /\ parent(dll_info.pdb_path) = parent(dll_path)
       /\ parent(dll_info.cab_path) = parent(dll_path)
       /\ file_name(dll_info.pdb_path) = file_name(pdb_path_raw(module.filename))
       /\ file_name(dll_info.cab_path) = Some(RecordStem \o CabExt)
       /\ WithoutName(dll_info.pdb_path, file_name(dll_info.pdb_path).val)
            = WithoutName(dll_info.cab_path, file_name(dll_info.cab_path).val)
  /\ (parse_tag # "none" /\ module.kind = "ok"
        /\ file_name(pdb_path_raw(module.filename)).some) => parse_tag = "Ok"

\* C8's case: the module d//m.dll, whose record names /b/a.pdb, gave d/a.pdb and
\* d/a.cab.
C8_Witness ==
  /\ parse_tag = "Ok"
  /\ dll_path = <<100, 47, 47>> \o ModuleName
  /\ module.filename = <<47, 98, 47, 97, 46, 112, 100, 98, 0>>
  /\ dll_info.pdb_path = <<100, 47, 97, 46, 112, 100, 98>>
  /\ dll_info.cab_path = <<100, 47, 97, 46, 99, 97, 98>>

\* String::from_utf8_lossy: well-formed characters are kept and the bytes that
\* are part of none become U+FFFD (one per byte here).
RECURSIVE from_utf8_lossy(_, _)
from_utf8_lossy(bytes, i) ==
  IF i > Len(bytes) THEN <<>>
  ELSE IF Utf8CharLen(bytes, i) > 0
    THEN SubSeq(bytes, i, i + Utf8CharLen(bytes, i) - 1)
         \o from_utf8_lossy(bytes, i + Utf8CharLen(bytes, i))
  ELSE <<239, 191, 189>> \o from_utf8_lossy(bytes, i + 1)

StripOneNul(text) ==
  IF text # <<>> /\ text[Len(text)] = 0 THEN Prefix(text, Len(text) - 1) ELSE text

\* The record's file name decoded as C9 says: lossily, less one trailing NUL,
\* less trailing white space.
LossyRecordPath == trim_end(StripOneNul(from_utf8_lossy(module.filename, 1)))

\* C9 as claimed: a file-name field that is not UTF-8 does not abort the parse:
\* when its lossy decoding has a file-name component, the parse succeeds with
\* that name's stem.
C9_LossyFileName ==
  (parse_tag # "none" /\ module.kind = "ok" /\ ~from_utf8_ok(module.filename)
     /\ file_name(LossyRecordPath).some)
    => parse_tag = "Ok" /\ dll_info.pdb_name = file_stem(LossyRecordPath).val

SymbolFile(files) ==
  IF dll_info.pdb_path \in DOMAIN files THEN Some(files[dll_info.pdb_path]) ELSE None

\* C10: a cleanup stage that leaves the archive in place has failed, and the run
\* ends with exit status 101 and the message "delete cab failed"; a failed
\* cleanup leaves the symbol file as the extract stage wrote it.
C10_CleanupFailureReported ==
  [][pc = "cleanup" =>
       /\ (pc' = "exit" /\ dll_info.cab_path \in DOMAIN fs') =>
            /\ failed' = "cleanup"
            /\ exit_code' = 101
            /\ panic_msg' = "delete cab failed"
       /\ failed' = "cleanup" => SymbolFile(fs') = SymbolFile(fs)]_vars

\* C10's case: the cleanup failed after the extract stage wrote the one entry of
\* the archive, and the symbol file holds that entry's data.
C10_Witness ==
  /\ failed = "cleanup"
  /\ copied = 1
  /\ dll_info.cab_path \in DOMAIN fs
  /\ dll_info.pdb_path \in DOMAIN fs
  /\ fs[dll_info.pdb_path] = <<11, 0>>

====
